---- MODULE Spec2Model ----
(***************************************************************************)
(* Model of src/textclassification.py: the length-prefixed framing of      *)
(* SimpleSocket and ThreadedTCPRequestHandler, the handler's command loop, *)
(* and the process-wide classifier registry.                               *)
(*                                                                         *)
(* A byte is a natural number 0..255.  A TCP direction of one connection   *)
(* is the sequence of bytes written to it and not yet read.  Sizes are     *)
(* counted in model units: the three size limits of the source keep their  *)
(* ratio (4096 : 4096 : 1024) and are scaled to 12 : 12 : 3, so that a     *)
(* payload one unit over the limit can be enumerated.                      *)
(***************************************************************************)
EXTENDS Naturals, Sequences, FiniteSets

VARIABLES
  c2s,          \* c2s[c]: bytes sent by the client of connection c, not yet read by its handler
  s2c,          \* s2c[c]: bytes sent by the handler of connection c, not yet read by its client
  cclosed,      \* cclosed[c]: the client has closed its socket (SimpleSocket.close)
  handler,      \* handler[c]: control point and locals of ThreadedTCPRequestHandler.handle
  classifiers,  \* TextClassificationServer.classifiers: name -> enabled
  cret,         \* cret[c]: what the client's last SimpleSocket.receive returned
  client,       \* client[c]: control point and locals of the TextClassificationClient method under way
  outstanding,  \* outstanding[c]: commands handle() has dispatched less response frames it has sent
  snapshots     \* snapshots[c]: the states the registry has had since the pass of handler c began

vars == <<c2s, s2c, cclosed, handler, classifiers, cret, client, outstanding, snapshots>>

(***************************************************************************)
(* Bounds of the model.                                                    *)
(***************************************************************************)
MaxBacklog == 0     \* a client sends only while at most this many bytes are unread
MaxStream == 3      \* a client adds to a stream only up to this many accumulated bytes
MaxUnread == 0      \* a client sends only while at most this many bytes wait to be received

Conns == {1, 2}     \* connection 2 is used by the concurrent specification only

(***************************************************************************)
(* Program constants (scaled, see above).                                  *)
(***************************************************************************)
max_data_size == 12     \* SimpleSocket.max_data_size = 4096
max_buffer_size == 12   \* ThreadedTCPRequestHandler.max_buffer_size = 4096
max_chunk_size == 3     \* TextClassificationClient.max_chunk_size = 1024

(***************************************************************************)
(* Sequences of bytes.                                                     *)
(***************************************************************************)
Take(s, n) == SubSeq(s, 1, IF n < Len(s) THEN n ELSE Len(s))
Drop(s, n) == SubSeq(s, n + 1, Len(s))
Min(a, b) == IF a < b THEN a ELSE b

(***************************************************************************)
(* struct.pack('=I', size) and struct.unpack('=I', b): an unsigned 32-bit  *)
(* integer in the byte order of the machine (little-endian here; both ends *)
(* use the same format string).  Every value of 2^16 or more is over every *)
(* size limit and is never used as a length: Unpack gives 2^16 for each of *)
(* them, which keeps the arithmetic inside the checker's integers.         *)
(***************************************************************************)
Pack(size) ==
  << size % 256, (size \div 256) % 256, (size \div 65536) % 256,
     (size \div 16777216) % 256 >>

Unpack(b) == IF b[3] # 0 \/ b[4] # 0 THEN 65536 ELSE b[1] + 256 * b[2]

(***************************************************************************)
(* What a receive returns: a payload, None, or an exception.               *)
(***************************************************************************)
RetData(d) == [tag |-> "data", data |-> d]
RetNone == [tag |-> "None", data |-> <<>>]
RetRaise == [tag |-> "raise", data |-> <<>>]
RetNothing == [tag |-> "nothing", data |-> <<>>]   \* no receive has returned yet

(***************************************************************************)
(* SimpleSocket.send and ThreadedTCPRequestHandler.send: the header and    *)
(* the payload in one sendall.                                             *)
(***************************************************************************)
SimpleSocket_send(data) == Pack(Len(data)) \o data

Handler_send(data) == Pack(Len(data)) \o data

(***************************************************************************)
(* ThreadedTCPRequestHandler.receive on the buffered reader rfile.         *)
(* rfile.read(n) blocks until n bytes are there or the peer has closed     *)
(* (eof), and returns fewer than n bytes only at eof.                      *)
(***************************************************************************)
\* A receive that checks the lower limit only.
Handler_size_rejected_mutant(size) == size = 0

Handler_size_rejected(size) == size = 0 \/ size > max_buffer_size

Handler_can_receive(stream, eof) ==
  \/ eof
  \/ /\ Len(stream) >= 4
     /\ \/ Handler_size_rejected(Unpack(Take(stream, 4)))
        \/ Len(stream) >= 4 + Unpack(Take(stream, 4))

Handler_receive(stream) ==
  IF Len(stream) = 0
    THEN [ret |-> RetNone, rest |-> stream]                    \* packed_header == b''
  ELSE IF Len(stream) < 4
    THEN [ret |-> RetRaise, rest |-> <<>>]                     \* struct.error
  ELSE LET size == Unpack(Take(stream, 4)) IN
    IF Handler_size_rejected(size)
      THEN [ret |-> RetNone, rest |-> Drop(stream, 4)]
      ELSE [ret |-> RetData(Take(Drop(stream, 4), size)),
            rest |-> Drop(Drop(stream, 4), size)]

(***************************************************************************)
(* SimpleSocket.receive on the raw socket.  socket.recv(n) blocks until at *)
(* least one byte has arrived or the peer has closed, and returns between  *)
(* one and n of the bytes that have arrived (b'' once the peer has closed  *)
(* and nothing is left): how many of the bytes in flight have arrived is   *)
(* not in the program's hands.                                             *)
(***************************************************************************)
SimpleSocket_size_rejected(size) == size = 0 \/ size > max_data_size

Recv(stream, n, eof) ==
  {k \in 0..Min(n, Len(stream)) : IF k = 0 THEN Len(stream) = 0 /\ eof ELSE TRUE}

SimpleSocket_receive(stream, eof) ==
  UNION {
    IF k < 4
      THEN {[ret |-> RetRaise, rest |-> Drop(stream, k)]}      \* struct.error
    ELSE LET size == Unpack(Take(stream, 4))
             body == Drop(stream, 4) IN
      IF SimpleSocket_size_rejected(size)
        THEN {[ret |-> RetNone, rest |-> body]}
        ELSE {[ret |-> RetData(Take(body, j)), rest |-> Drop(body, j)] :
                j \in Recv(body, size, eof)}
    : k \in Recv(stream, 4, eof) }

(***************************************************************************)
(* The alphabet.  Each command verb and each fixed word of a response is   *)
(* one unit; names, values, paths and content are spelled in ASCII.        *)
(***************************************************************************)
PING == 1                \* b'PING'
VERSION == 2             \* b'VERSION'
RELOAD == 3              \* b'RELOAD'
LIST_CLASSIFIER == 4     \* b'LIST_CLASSIFIER'
SET_CLASSIFIER == 5      \* b'SET_CLASSIFIER'
MD5_FILE == 6            \* b'MD5_FILE'
MD5_STREAM == 7          \* b'MD5_STREAM'
PREDICT_STREAM == 8      \* b'PREDICT_STREAM'
PREDICT_FILE == 14       \* b'PREDICT_FILE'
CLOSE == 15              \* b'CLOSE'

COLON == 58              \* b':'
NL == 10                 \* '\n'
Whitespace == {9, 10, 11, 12, 13, 32}    \* what bytes.rstrip() strips

ST_OK == 79              \* "OK"
ST_ERROR == 69           \* "ERROR"
PONG == 80               \* "PONG"
BYE == 66                \* "Bye"
UNKNOWN_COMMAND == 85    \* "Unknown Command"
VERSION_STRING == 86     \* __version__
RELOAD_LITERAL == 114    \* b'reload'
JSON_TRUE == 116         \* true
JSON_FALSE == 102        \* false

str_true == <<116, 114, 117, 101>>          \* "true"
str_false == <<102, 97, 108, 115, 101>>     \* "false"

(***************************************************************************)
(* bytes.rstrip(), bytes.split(sep), str.lower(), bytes.decode('utf-8').   *)
(***************************************************************************)
RECURSIVE RStrip(_)
RStrip(s) ==
  IF Len(s) > 0 /\ s[Len(s)] \in Whitespace THEN RStrip(Take(s, Len(s) - 1)) ELSE s

IndexOf(s, sep) ==
  IF \E i \in 1..Len(s) : s[i] = sep
    THEN CHOOSE i \in 1..Len(s) : s[i] = sep /\ \A j \in 1..(i - 1) : s[j] # sep
    ELSE 0

RECURSIVE Split(_, _)
Split(s, sep) ==
  IF IndexOf(s, sep) = 0
    THEN <<s>>
    ELSE <<Take(s, IndexOf(s, sep) - 1)>> \o Split(Drop(s, IndexOf(s, sep)), sep)

Lower(s) == [i \in 1..Len(s) |-> IF s[i] >= 65 /\ s[i] <= 90 THEN s[i] + 32 ELSE s[i]]

\* The alphabet holds no multi-byte UTF-8 sequence: a byte over 127 never decodes.
Utf8Valid(s) == \A i \in 1..Len(s) : s[i] < 128

(***************************************************************************)
(* The registry, the files of the server's host and the collaborators.     *)
(***************************************************************************)
\* cfg['classifiers'] in its order, "default" skipped: dict order is insertion order.
classifier_names == << <<97>>, <<98>> >>                       \* "a", "b"

Registered == {classifier_names[i] : i \in 1..Len(classifier_names)}

\* The files that exist, by path, with their content.
files ==
  [p \in {<<102>>, <<103>>} |->
     IF p = <<102>> THEN <<120, 10, 121>>      \* f: "x\ny"
                    ELSE <<>>]                  \* g: empty

\* classifier.predict(multi_line): one label per line.
predict(name, lines) ==
  [i \in 1..Len(lines) |-> 48 + ((name[1] + Len(lines[i])) % 2)]

\* hashlib.md5: a hash object is what it has been fed so far, update(data)
\* feeds it more, and hexdigest() is a function of all that was fed.
md5_new == <<>>

md5_update(h, data) == h \o data

RECURSIVE md5_compress(_, _)
md5_compress(state, message) ==
  IF Len(message) = 0 THEN state
  ELSE md5_compress((state * 31 + message[1] + 1) % 251, Drop(message, 1))

hexdigest(h) == <<md5_compress(0, h)>>

(***************************************************************************)
(* json.dumps(response).encode('utf-8').                                   *)
(***************************************************************************)
json_bool(b) == IF b THEN JSON_TRUE ELSE JSON_FALSE

json_response(status, result) == <<status>> \o result

RECURSIVE json_dict(_)
json_dict(pairs) ==
  IF Len(pairs) = 0 THEN <<>>
  ELSE pairs[1][1] \o pairs[1][2] \o json_dict(Drop(pairs, 1))

(***************************************************************************)
(* ThreadedTCPRequestHandler: one handler per connection.  pc is the place *)
(* in handle() or in the method it has called; the other fields are that   *)
(* method's locals.  A step runs from one access to shared state (the      *)
(* socket, the registry) to just before the next.                          *)
(***************************************************************************)
HandlerStart ==
  [pc |-> "recv", data |-> RetNothing, classifier |-> <<>>, value |-> <<>>,
   status |-> ST_OK, file_name |-> <<>>, hash_md5 |-> md5_new, stream |-> <<>>,
   multi_line |-> <<>>, result |-> <<>>, i |-> 0]

Alive(c) == handler[c].pc \notin {"exit", "crashed"}

\* self.receive() where handle(), md5_stream() and predict_stream() call it.
CanReceive(c) == Handler_can_receive(c2s[c], cclosed[c])
Received(c) == Handler_receive(c2s[c])

\* data.rstrip().split(b':') of the frame just received (lines 146-148).
Header(c) == Split(RStrip(Received(c).ret.data), COLON)

\* A loop that takes the next command while a method has yet to answer.
Dispatch_mutant(c, verb) ==
  /\ handler[c].pc \in {"recv", "list_classifier", "set_classifier"}
  /\ CanReceive(c)
  /\ Received(c).ret.tag = "data"
  /\ Header(c)[1] = <<verb>>

\* handle() has received a frame whose first token is verb.
Dispatch(c, verb) ==
  /\ handler[c].pc = "recv"
  /\ CanReceive(c)
  /\ Received(c).ret.tag = "data"
  /\ Header(c)[1] = <<verb>>

Consume(c) == c2s' = [c2s EXCEPT ![c] = Received(c).rest]

Respond(c, response) == s2c' = [s2c EXCEPT ![c] = @ \o Handler_send(response)]

Goto(c, h) == handler' = [handler EXCEPT ![c] = h]

\* The handler of c has dispatched `read` commands more, and has sent one
\* response frame more if this step has written to the socket (each step of
\* the handler calls self.send at most once).
Count(c, read) ==
  outstanding' = [outstanding EXCEPT
                    ![c] = (@ + read) - (IF s2c'[c] # s2c[c] THEN 1 ELSE 0)]

\* The control points of a pass over the registry: the dict comprehension
\* of list_classifier and the for loops of predict_stream and predict_file.
PassPcs == {"list_classifier", "predict_stream_for", "predict_file_for"}

\* The handler of c begins a pass, is in one, or is in none.
Pass(c) ==
  snapshots' = [snapshots EXCEPT ![c] =
                  IF handler'[c].pc \notin PassPcs THEN {}
                  ELSE IF handler[c].pc \in PassPcs THEN @
                  ELSE {classifiers}]

\* The registry has been written: every pass under way has one more state
\* of it behind.
Written ==
  snapshots' = [d \in Conns |->
                  IF handler[d].pc \in PassPcs
                    THEN snapshots[d] \cup {classifiers'}
                    ELSE snapshots[d]]

Verbs ==
  {PING, VERSION, RELOAD, LIST_CLASSIFIER, SET_CLASSIFIER, MD5_FILE, MD5_STREAM,
   PREDICT_STREAM, PREDICT_FILE, CLOSE}

\* lines 143-145: receive returns None, the loop breaks and handle() returns.
handle_end(c) ==
  /\ handler[c].pc = "recv"
  /\ CanReceive(c)
  /\ Received(c).ret.tag = "None"
  /\ Consume(c)
  /\ Goto(c, [HandlerStart EXCEPT !.pc = "exit"])
  /\ UNCHANGED <<s2c, cclosed, classifiers, cret, client, outstanding, snapshots>>

\* struct.error out of self.receive(), wherever it is called: handle() catches
\* socket.error only, so the exception ends the handler.
receive_raises(c) ==
  /\ handler[c].pc \in {"recv", "md5_stream", "predict_stream"}
  /\ CanReceive(c)
  /\ Received(c).ret.tag = "raise"
  /\ Consume(c)
  /\ Goto(c, [HandlerStart EXCEPT !.pc = "crashed"])
  /\ UNCHANGED <<s2c, cclosed, classifiers, cret, client, outstanding, snapshots>>

ping(c) ==
  /\ Dispatch(c, PING)
  /\ Consume(c)
  /\ Respond(c, json_response(ST_OK, <<PONG>>))
  /\ UNCHANGED <<cclosed, handler, classifiers, cret, client, snapshots>>
  /\ Count(c, 1)

version(c) ==
  /\ Dispatch(c, VERSION)
  /\ Consume(c)
  /\ Respond(c, json_response(ST_OK, <<VERSION_STRING>>))
  /\ UNCHANGED <<cclosed, handler, classifiers, cret, client, snapshots>>
  /\ Count(c, 1)

reload(c) ==
  /\ Dispatch(c, RELOAD)
  /\ Consume(c)
  /\ Respond(c, <<RELOAD_LITERAL>>)
  /\ UNCHANGED <<cclosed, handler, classifiers, cret, client, snapshots>>
  /\ Count(c, 1)

\* A close that answers and lets the loop go on.
close_mutant(c) ==
  /\ Dispatch(c, CLOSE)
  /\ Consume(c)
  /\ Respond(c, json_response(ST_OK, <<BYE>>))
  /\ UNCHANGED <<cclosed, handler, classifiers, cret, client, snapshots>>
  /\ Count(c, 1)

close(c) ==
  /\ Dispatch(c, CLOSE)
  /\ Consume(c)
  /\ Respond(c, json_response(ST_OK, <<BYE>>))
  /\ Goto(c, [HandlerStart EXCEPT !.pc = "exit"])
  /\ UNCHANGED <<cclosed, classifiers, cret, client, snapshots>>
  /\ Count(c, 1)

\* An answer to an unknown verb with status OK.
unknown_command_response_mutant == json_response(ST_OK, <<UNKNOWN_COMMAND>>)

unknown_command_response == json_response(ST_ERROR, <<UNKNOWN_COMMAND>>)

unknown_command(c) ==
  /\ handler[c].pc = "recv"
  /\ CanReceive(c)
  /\ Received(c).ret.tag = "data"
  /\ \A verb \in Verbs : Header(c)[1] # <<verb>>
  /\ Consume(c)
  /\ Respond(c, unknown_command_response)
  /\ UNCHANGED <<cclosed, handler, classifiers, cret, client, snapshots>>
  /\ Count(c, 1)

\* list_classifier: the dict comprehension reads one flag per step.
list_classifier(c) ==
  /\ Dispatch(c, LIST_CLASSIFIER)
  /\ Consume(c)
  /\ IF Len(classifier_names) = 0
       THEN /\ Respond(c, json_response(ST_OK, <<>>))
            /\ UNCHANGED handler
       ELSE /\ Goto(c, [HandlerStart EXCEPT !.pc = "list_classifier", !.i = 1])
            /\ UNCHANGED s2c
  /\ UNCHANGED <<cclosed, classifiers, cret, client>>
  /\ Count(c, 1)
  /\ Pass(c)

list_classifier_iter(c) ==
  /\ handler[c].pc = "list_classifier"
  /\ LET h == handler[c]
         name == classifier_names[h.i]
         result == Append(h.result, <<name, <<json_bool(classifiers[name])>> >>)
     IN IF h.i = Len(classifier_names)
          THEN /\ Respond(c, json_response(ST_OK, json_dict(result)))
               /\ Goto(c, HandlerStart)
          ELSE /\ Goto(c, [h EXCEPT !.result = result, !.i = h.i + 1])
               /\ UNCHANGED s2c
  /\ UNCHANGED <<c2s, cclosed, classifiers, cret, client>>
  /\ Count(c, 0)
  /\ Pass(c)

\* lines 157-160 and 229-237: the arguments are taken, the value is compared
\* and the flag is written.  header[1] or header[2] missing is an IndexError,
\* an undecodable argument a UnicodeDecodeError, a name that is no key of the
\* registry a KeyError at the write: each ends the handler.
\* A comparison that takes every value but "false" for "true".
value_is_true_mutant(value) == Lower(value) # str_false

value_is_true(value) == Lower(value) = str_true        \* line 232

\* A comparison that takes every value but "true" for "false".
value_is_false_mutant(value) == Lower(value) # str_true

value_is_false(value) == Lower(value) = str_false      \* line 234

set_classifier(c) ==
  /\ Dispatch(c, SET_CLASSIFIER)
  /\ Consume(c)
  /\ LET header == Header(c) IN
     IF Len(header) < 3 \/ ~Utf8Valid(header[2]) \/ ~Utf8Valid(header[3])
       THEN /\ Goto(c, [HandlerStart EXCEPT !.pc = "crashed"])
            /\ UNCHANGED classifiers
     ELSE LET classifier == header[2]
              value == header[3] IN
       IF value_is_true(value) \/ value_is_false(value)
         THEN IF classifier \in DOMAIN classifiers
                THEN /\ classifiers' =
                          [classifiers EXCEPT ![classifier] = value_is_true(value)]
                     /\ Goto(c, [HandlerStart EXCEPT !.pc = "set_classifier",
                                   !.classifier = classifier, !.value = value,
                                   !.status = ST_OK])
                ELSE /\ Goto(c, [HandlerStart EXCEPT !.pc = "crashed"])
                     /\ UNCHANGED classifiers
         ELSE /\ Goto(c, [HandlerStart EXCEPT !.pc = "set_classifier",
                            !.classifier = classifier, !.value = value,
                            !.status = ST_ERROR])
              /\ UNCHANGED classifiers
  /\ UNCHANGED <<s2c, cclosed, cret, client>>
  /\ Count(c, 1)
  /\ Written

\* lines 238-240: the flag is read back into the response, which is sent.
set_classifier_respond(c) ==
  /\ handler[c].pc = "set_classifier"
  /\ LET h == handler[c] IN
     IF h.classifier \in DOMAIN classifiers
       THEN /\ Respond(c, json_response(h.status,
                    h.classifier \o <<json_bool(classifiers[h.classifier])>>))
            /\ Goto(c, HandlerStart)
       ELSE /\ Goto(c, [HandlerStart EXCEPT !.pc = "crashed"])       \* KeyError
            /\ UNCHANGED s2c
  /\ UNCHANGED <<c2s, cclosed, classifiers, cret, client, snapshots>>
  /\ Count(c, 0)

\* md5_file: open() of a missing file raises and ends the handler, as does
\* a command with no path (IndexError at line 162).
md5_file(c) ==
  /\ Dispatch(c, MD5_FILE)
  /\ Consume(c)
  /\ LET header == Header(c) IN
     IF Len(header) < 2 \/ header[2] \notin DOMAIN files
       THEN /\ Goto(c, [HandlerStart EXCEPT !.pc = "crashed"])
            /\ UNCHANGED s2c
       ELSE /\ Respond(c, json_response(ST_OK,
                    hexdigest(md5_update(md5_new, files[header[2]]))))
            /\ UNCHANGED handler
  /\ UNCHANGED <<cclosed, classifiers, cret, client, snapshots>>
  /\ Count(c, 1)

md5_stream(c) ==
  /\ Dispatch(c, MD5_STREAM)
  /\ Consume(c)
  /\ Goto(c, [HandlerStart EXCEPT !.pc = "md5_stream", !.hash_md5 = md5_new])
  /\ UNCHANGED <<s2c, cclosed, classifiers, cret, client, snapshots>>
  /\ Count(c, 1)

\* A loop that keeps the digest of the last chunk only.
md5_stream_update_mutant(hash_md5, data) == md5_update(md5_new, data)

md5_stream_update(hash_md5, data) == md5_update(hash_md5, data)     \* line 263

\* A loop that takes a chunk spelling CLOSE for the command.
md5_stream_loop_mutant(c) ==
  /\ handler[c].pc = "md5_stream"
  /\ CanReceive(c)
  /\ Received(c).ret.tag \in {"data", "None"}
  /\ Consume(c)
  /\ IF Received(c).ret.tag = "None"
       THEN /\ Respond(c, json_response(ST_OK, hexdigest(handler[c].hash_md5)))
            /\ Goto(c, HandlerStart)
       ELSE IF Header(c)[1] = <<CLOSE>>
         THEN /\ Respond(c, json_response(ST_OK, <<BYE>>))
              /\ Goto(c, [HandlerStart EXCEPT !.pc = "exit"])
         ELSE /\ Goto(c, [handler[c] EXCEPT
                            !.hash_md5 = md5_stream_update(@, Received(c).ret.data)])
              /\ UNCHANGED s2c
  /\ UNCHANGED <<cclosed, classifiers, cret, client, snapshots>>
  /\ Count(c, 0)

\* lines 259-273: one turn of the loop; None ends it and the digest is sent.
md5_stream_loop(c) ==
  /\ handler[c].pc = "md5_stream"
  /\ CanReceive(c)
  /\ Received(c).ret.tag \in {"data", "None"}
  /\ Consume(c)
  /\ IF Received(c).ret.tag = "None"
       THEN /\ Respond(c, json_response(ST_OK, hexdigest(handler[c].hash_md5)))
            /\ Goto(c, HandlerStart)
       ELSE /\ Goto(c, [handler[c] EXCEPT
                          !.hash_md5 = md5_stream_update(@, Received(c).ret.data)])
            /\ UNCHANGED s2c
  /\ UNCHANGED <<cclosed, classifiers, cret, client, snapshots>>
  /\ Count(c, 0)

predict_stream(c) ==
  /\ Dispatch(c, PREDICT_STREAM)
  /\ Consume(c)
  /\ Goto(c, [HandlerStart EXCEPT !.pc = "predict_stream"])
  /\ UNCHANGED <<s2c, cclosed, classifiers, cret, client, snapshots>>
  /\ Count(c, 1)

\* A split that strips the stream's trailing whitespace first.
predict_stream_lines_mutant(stream) == Split(RStrip(stream), NL)

predict_stream_lines(stream) == Split(stream, NL)                   \* line 284

predict_file_lines(data) == Split(data, NL)                         \* line 298

\* A loop body that does not look at the flag.
predict_stream_result_mutant(result, classifier_name, enabled, multi_line) ==
  Append(result, <<classifier_name, predict(classifier_name, multi_line)>>)

\* A loop body that takes an enabled classifier in without its prediction.
predict_stream_result_torn(result, classifier_name, enabled, multi_line) ==
  IF enabled THEN Append(result, <<classifier_name, <<>> >>) ELSE result

\* lines 289-291 and 303-305: the body of the loop over the registry.
predict_stream_result(result, classifier_name, enabled, multi_line) ==
  IF enabled
    THEN Append(result, <<classifier_name, predict(classifier_name, multi_line)>>)
    ELSE result

predict_file_result(result, classifier_name, enabled, multi_line) ==
  IF enabled
    THEN Append(result, <<classifier_name, predict(classifier_name, multi_line)>>)
    ELSE result

\* lines 277-287: one turn of the loop; None ends it, and the stream is
\* decoded (a UnicodeDecodeError ends the handler) and split into lines.
predict_stream_loop(c) ==
  /\ handler[c].pc = "predict_stream"
  /\ CanReceive(c)
  /\ Received(c).ret.tag \in {"data", "None"}
  /\ Consume(c)
  /\ LET h == handler[c] IN
     IF Received(c).ret.tag = "data"
       THEN /\ Goto(c, [h EXCEPT !.stream = @ \o Received(c).ret.data])
            /\ UNCHANGED s2c
     ELSE IF ~Utf8Valid(h.stream)
       THEN /\ Goto(c, [HandlerStart EXCEPT !.pc = "crashed"])
            /\ UNCHANGED s2c
     ELSE IF Len(classifier_names) = 0
       THEN /\ Respond(c, json_response(ST_OK, <<>>))
            /\ Goto(c, HandlerStart)
     ELSE /\ Goto(c, [HandlerStart EXCEPT !.pc = "predict_stream_for",
                        !.stream = h.stream,
                        !.multi_line = predict_stream_lines(h.stream), !.i = 1])
          /\ UNCHANGED s2c
  /\ UNCHANGED <<cclosed, classifiers, cret, client>>
  /\ Count(c, 0)
  /\ Pass(c)

\* lines 288-294: one classifier per step, in the registry's order.
predict_stream_for(c) ==
  /\ handler[c].pc = "predict_stream_for"
  /\ LET h == handler[c]
         classifier_name == classifier_names[h.i]
         result == predict_stream_result(h.result, classifier_name,
                                         classifiers[classifier_name], h.multi_line)
     IN IF h.i = Len(classifier_names)
          THEN /\ Respond(c, json_response(ST_OK, json_dict(result)))
               /\ Goto(c, HandlerStart)
          ELSE /\ Goto(c, [h EXCEPT !.result = result, !.i = h.i + 1])
               /\ UNCHANGED s2c
  /\ UNCHANGED <<c2s, cclosed, classifiers, cret, client>>
  /\ Count(c, 0)
  /\ Pass(c)

\* lines 169-170 and 297-301: the file is read, decoded and split into lines.
predict_file(c) ==
  /\ Dispatch(c, PREDICT_FILE)
  /\ Consume(c)
  /\ LET header == Header(c) IN
     IF Len(header) < 2 \/ header[2] \notin DOMAIN files
       THEN /\ Goto(c, [HandlerStart EXCEPT !.pc = "crashed"])
            /\ UNCHANGED s2c
     ELSE IF ~Utf8Valid(files[header[2]])
       THEN /\ Goto(c, [HandlerStart EXCEPT !.pc = "crashed"])
            /\ UNCHANGED s2c
     ELSE IF Len(classifier_names) = 0
       THEN /\ Respond(c, json_response(ST_OK, <<>>))
            /\ UNCHANGED handler
     ELSE /\ Goto(c, [HandlerStart EXCEPT !.pc = "predict_file_for",
                        !.file_name = header[2],
                        !.multi_line = predict_file_lines(files[header[2]]), !.i = 1])
          /\ UNCHANGED s2c
  /\ UNCHANGED <<cclosed, classifiers, cret, client>>
  /\ Count(c, 1)
  /\ Pass(c)

\* lines 302-308.
predict_file_for(c) ==
  /\ handler[c].pc = "predict_file_for"
  /\ LET h == handler[c]
         classifier_name == classifier_names[h.i]
         result == predict_file_result(h.result, classifier_name,
                                       classifiers[classifier_name], h.multi_line)
     IN IF h.i = Len(classifier_names)
          THEN /\ Respond(c, json_response(ST_OK, json_dict(result)))
               /\ Goto(c, HandlerStart)
          ELSE /\ Goto(c, [h EXCEPT !.result = result, !.i = h.i + 1])
               /\ UNCHANGED s2c
  /\ UNCHANGED <<c2s, cclosed, classifiers, cret, client>>
  /\ Count(c, 0)
  /\ Pass(c)

(***************************************************************************)
(* The client end of a connection: SimpleSocket.                           *)
(***************************************************************************)
\* No method of TextClassificationClient is under way.  method is the method
\* called last, data its argument, start_pos and end_pos its locals, sent the
\* payloads it has passed to simple_socket.send and receives the number of
\* times it has called simple_socket.receive.
ClientIdle ==
  [pc |-> "idle", method |-> "", data |-> <<>>, start_pos |-> 0, end_pos |-> 0,
   sent |-> <<>>, receives |-> 0]

ClientUp(c) == ~cclosed[c] /\ cret[c].tag # "raise"

\* What a client sends once handle() has ended is never read: one payload
\* stands for all.
AfterEnd == <<PING, NL>>

\* SimpleSocket.send(data), lines 41-44.
ClientSend(c, data) ==
  /\ ClientUp(c)
  /\ Alive(c) \/ data = AfterEnd
  /\ Len(c2s[c]) <= MaxBacklog
  /\ Alive(c) => Len(s2c[c]) <= MaxUnread
  /\ handler[c].pc = "predict_stream" =>
       \/ data = <<>>
       \/ Len(data) > max_buffer_size
       \/ Len(handler[c].stream) + Len(data) <= MaxStream
  /\ handler[c].pc = "md5_stream" =>
       \/ data = <<>>
       \/ Len(data) > max_buffer_size
       \/ Len(handler[c].hash_md5) + Len(data) <= MaxStream
  /\ c2s' = [c2s EXCEPT ![c] = @ \o SimpleSocket_send(data)]
  /\ cret' = [cret EXCEPT ![c] = RetNothing]
  /\ UNCHANGED <<s2c, cclosed, handler, classifiers, client, outstanding, snapshots>>

\* SimpleSocket.receive(), lines 46-52.  The server closes the socket when
\* handle() has returned or raised.
ClientReceive(c) ==
  /\ ClientUp(c)
  /\ \E r \in SimpleSocket_receive(s2c[c], ~Alive(c)) :
       /\ cret' = [cret EXCEPT ![c] = r.ret]
       /\ s2c' = [s2c EXCEPT ![c] = r.rest]
  /\ UNCHANGED <<c2s, cclosed, handler, classifiers, client, outstanding, snapshots>>

\* SimpleSocket.close(), lines 34-39.
ClientClose(c) ==
  /\ ~cclosed[c]
  /\ cclosed' = [cclosed EXCEPT ![c] = TRUE]
  /\ UNCHANGED <<c2s, s2c, handler, classifiers, cret, client, outstanding, snapshots>>

(***************************************************************************)
(* TextClassificationClient: the methods that send a command and receive   *)
(* its response.  One step per call of simple_socket.send or receive.      *)
(***************************************************************************)
\* A command as its tokens, joined by colons, with the newline that ends it.
Command(tokens) ==
  LET RECURSIVE Join(_)
      Join(ts) == IF Len(ts) = 1 THEN ts[1] ELSE ts[1] \o <<COLON>> \o Join(Drop(ts, 1))
  IN Join(tokens) \o <<NL>>

\* A slice that leaves out the last byte of its range.
Slice_mutant(data, start, end) == SubSeq(data, start + 1, Min(end, Len(data)) - 1)

\* data[start:end] of Python.
Slice(data, start, end) == SubSeq(data, start + 1, Min(end, Len(data)))

\* self.simple_socket.send(data) inside a method.
MethodSend(c, data) == c2s' = [c2s EXCEPT ![c] = @ \o SimpleSocket_send(data)]

\* A method is called: its first send (lines 334, 348, 361, 381, 404, 416).
MethodCall(c, method, message, data, next) ==
  /\ ClientUp(c)
  /\ client[c].pc = "idle"
  /\ Len(s2c[c]) <= MaxUnread
  /\ MethodSend(c, message)
  /\ client' = [client EXCEPT ![c] =
                  [pc |-> next, method |-> method, data |-> data, start_pos |-> 0,
                   end_pos |-> max_chunk_size, sent |-> <<message>>, receives |-> 0]]
  /\ cret' = [cret EXCEPT ![c] = RetNothing]
  /\ UNCHANGED <<s2c, cclosed, handler, classifiers, outstanding, snapshots>>

\* response = self.simple_socket.receive(); return response.  struct.error is
\* no OSError: it leaves the method.
MethodReceive(c, method) ==
  /\ ClientUp(c)
  /\ client[c].pc = "receive"
  /\ client[c].method = method
  /\ \E r \in SimpleSocket_receive(s2c[c], ~Alive(c)) :
       /\ cret' = [cret EXCEPT ![c] = r.ret]
       /\ s2c' = [s2c EXCEPT ![c] = r.rest]
  /\ client' = [client EXCEPT ![c].pc = "idle", ![c].receives = @ + 1]
  /\ UNCHANGED <<c2s, cclosed, handler, classifiers, outstanding, snapshots>>

\* lines 363-371: one turn of the while loop, or the sentinel after it.
StreamLoop(c, method) ==
  /\ ClientUp(c)
  /\ client[c].pc = "loop"
  /\ client[c].method = method
  /\ LET m == client[c]
         data_len == Len(m.data)
         end_pos == Min(m.end_pos, data_len)
     IN IF m.start_pos < data_len
          THEN /\ MethodSend(c, Slice(m.data, m.start_pos, end_pos))
               /\ client' = [client EXCEPT
                    ![c].start_pos = m.start_pos + max_chunk_size,
                    ![c].end_pos = end_pos + max_chunk_size,
                    ![c].sent = Append(@, Slice(m.data, m.start_pos, end_pos))]
          ELSE /\ MethodSend(c, <<>>)
               /\ client' = [client EXCEPT ![c].pc = "receive",
                                           ![c].sent = Append(@, <<>>)]
  /\ UNCHANGED <<s2c, cclosed, handler, classifiers, cret, outstanding, snapshots>>

client_md5_stream(c, data) ==
  MethodCall(c, "md5_stream", Command(<< <<MD5_STREAM>> >>), data, "loop")

client_md5_stream_loop(c) == StreamLoop(c, "md5_stream")

client_md5_stream_receive(c) == MethodReceive(c, "md5_stream")

client_predict_stream(c, data) ==
  MethodCall(c, "predict_stream", Command(<< <<PREDICT_STREAM>> >>), data, "loop")

client_predict_stream_loop(c) == StreamLoop(c, "predict_stream")

client_predict_stream_receive(c) == MethodReceive(c, "predict_stream")

client_command(c, message) == MethodCall(c, "command", message, <<>>, "receive")

client_command_receive(c) == MethodReceive(c, "command")

client_set_classifier(c, classifier, value) ==
  MethodCall(c, "set_classifier", Command(<< <<SET_CLASSIFIER>>, classifier, value >>),
             <<>>, "receive")

client_set_classifier_receive(c) == MethodReceive(c, "set_classifier")

\* lines 344-355 and 400-411: os.stat raises OSError for a path that is no
\* file; the method logs it and returns None, having sent nothing.
FileCall(c, method, verb, file_name) ==
  IF file_name \in DOMAIN files
    THEN MethodCall(c, method, Command(<< <<verb>>, file_name >>), <<>>, "receive")
    ELSE /\ ClientUp(c)
         /\ client[c].pc = "idle"
         /\ client' = [client EXCEPT ![c] = [ClientIdle EXCEPT !.method = method]]
         /\ cret' = [cret EXCEPT ![c] = RetNone]
         /\ UNCHANGED <<c2s, s2c, cclosed, handler, classifiers, outstanding, snapshots>>

client_md5_file(c, file_name) == FileCall(c, "md5_file", MD5_FILE, file_name)

client_md5_file_receive(c) == MethodReceive(c, "md5_file")

client_predict_file(c, file_name) == FileCall(c, "predict_file", PREDICT_FILE, file_name)

client_predict_file_receive(c) == MethodReceive(c, "predict_file")

(***************************************************************************)
(* What the clients send.                                                  *)
(***************************************************************************)
Oversized ==
  \* max_buffer_size + 1 bytes that hold two frames of their own
  <<2, 0, 0, 0, PING, NL, 1, 0, 0, 0, 70, 0, 0>>

ValidValues == { str_true, <<70, 65, 76, 83, 69>>, <<84, 114, 117, 101>> }  \* true FALSE True
InvalidValues == { <<110, 111>>, <<>> }                                     \* "no", ""
UnknownNames == { <<122>>, <<65>> }                                         \* "z", "A"
Paths == { <<102>>, <<113>> }                                               \* f, and q (no such file)

Commands ==
  { Command(<< <<v>> >>) :
      v \in {PING, VERSION, RELOAD, LIST_CLASSIFIER, CLOSE, MD5_STREAM, PREDICT_STREAM, 70} }
  \cup { Command(<< <<SET_CLASSIFIER>>, n, v >>) :
           n \in Registered \cup UnknownNames, v \in ValidValues \cup InvalidValues }
  \cup { Command(<< <<SET_CLASSIFIER>>, <<97>> >>) }
  \cup { Command(<< <<v>>, p >>) : v \in {MD5_FILE, PREDICT_FILE}, p \in Paths }

Chunks == { <<120>>, <<10>>, <<121>>, <<120, 10, 121>>, <<255>> }

Payloads == Commands \cup Chunks \cup {<<>>, Oversized}

(***************************************************************************)
(* The specification of one connection.                                    *)
(***************************************************************************)
Init ==
  /\ c2s = [c \in Conns |-> <<>>]
  /\ s2c = [c \in Conns |-> <<>>]
  /\ cclosed = [c \in Conns |-> FALSE]
  /\ handler = [c \in Conns |-> HandlerStart]
  /\ classifiers \in [Registered -> BOOLEAN]
  /\ cret = [c \in Conns |-> RetNothing]
  /\ client = [c \in Conns |-> ClientIdle]
  /\ outstanding = [c \in Conns |-> 0]
  /\ snapshots = [c \in Conns |-> {}]

Handle(c) ==
  \/ handle_end(c)
  \/ receive_raises(c)
  \/ ping(c)
  \/ version(c)
  \/ reload(c)
  \/ close(c)
  \/ unknown_command(c)
  \/ list_classifier(c)
  \/ list_classifier_iter(c)
  \/ set_classifier(c)
  \/ set_classifier_respond(c)
  \/ md5_file(c)
  \/ md5_stream(c)
  \/ md5_stream_loop(c)
  \/ predict_stream(c)
  \/ predict_stream_loop(c)
  \/ predict_stream_for(c)
  \/ predict_file(c)
  \/ predict_file_for(c)

Next ==
  \/ \E data \in Payloads : ClientSend(1, data)
  \/ ClientReceive(1)
  \/ ClientClose(1)
  \/ Handle(1)

Spec == Init /\ [][Next]_vars

(***************************************************************************)
(* The framing alone: both ends send payloads of every length from 0 to    *)
(* one over the limit and call receive, with no command layer in between.  *)
(***************************************************************************)
FrameLengths == {0, 1, 2, max_data_size - 1, max_data_size, max_data_size + 1}

FramePayloads == { [i \in 1..n |-> 64 + i] : n \in FrameLengths }

\* ThreadedTCPRequestHandler.receive(), called on its own.
FrameHandlerReceive(c) ==
  /\ handler[c].pc = "recv"
  /\ CanReceive(c)
  /\ Consume(c)
  /\ Goto(c, [HandlerStart EXCEPT
                !.pc = IF Received(c).ret.tag = "raise" THEN "crashed" ELSE "recv",
                !.data = Received(c).ret])
  /\ UNCHANGED <<s2c, cclosed, classifiers, cret, client, outstanding, snapshots>>

\* ThreadedTCPRequestHandler.send(data), called on its own, once what the
\* client sent has been received.
FrameHandlerSend(c, data) ==
  /\ Alive(c)
  /\ Len(c2s[c]) <= MaxBacklog
  /\ Len(s2c[c]) <= MaxUnread
  /\ Respond(c, data)
  /\ Goto(c, HandlerStart)
  /\ UNCHANGED <<c2s, cclosed, classifiers, cret, client, outstanding, snapshots>>

\* handle() returns and the server closes the connection.
FrameHandlerReturn(c) ==
  /\ Alive(c)
  /\ Goto(c, [handler[c] EXCEPT !.pc = "exit"])
  /\ UNCHANGED <<c2s, s2c, cclosed, classifiers, cret, client, outstanding, snapshots>>

FrameNext ==
  \/ \E data \in FramePayloads : ClientSend(1, data)
  \/ ClientReceive(1)
  \/ ClientClose(1)
  \/ FrameHandlerReceive(1)
  \/ \E data \in FramePayloads : FrameHandlerSend(1, data)
  \/ FrameHandlerReturn(1)

SpecFrame == Init /\ [][FrameNext]_vars

(***************************************************************************)
(* Two connections on the one registry: the commands that read or write    *)
(* it, their steps interleaved.                                            *)
(***************************************************************************)
RegistryCommands ==
  { Command(<< <<SET_CLASSIFIER>>, <<97>>, str_true >>),
    Command(<< <<SET_CLASSIFIER>>, <<97>>, <<70, 65, 76, 83, 69>> >>),
    Command(<< <<SET_CLASSIFIER>>, <<98>>, <<84, 114, 117, 101>> >>),
    Command(<< <<LIST_CLASSIFIER>> >>),
    Command(<< <<PREDICT_FILE>>, <<102>> >>),
    Command(<< <<PREDICT_STREAM>> >>) }

\* What follows PREDICT_STREAM: a chunk, and the sentinel.
StreamFrames == { <<120, 10, 121>>, <<>> }

ConcNext ==
  \E c \in Conns :
    \/ \E data \in RegistryCommands : ClientSend(c, data)
    \/ \E data \in StreamFrames : handler[c].pc = "predict_stream" /\ ClientSend(c, data)
    \/ predict_stream(c)
    \/ predict_stream_loop(c)
    \/ predict_stream_for(c)
    \/ set_classifier(c)
    \/ set_classifier_respond(c)
    \/ list_classifier(c)
    \/ list_classifier_iter(c)
    \/ predict_file(c)
    \/ predict_file_for(c)

SpecConc == Init /\ [][ConcNext]_vars

(***************************************************************************)
(* One client program calling the methods of TextClassificationClient one  *)
(* after the other, and the handler of its connection.                     *)
(***************************************************************************)
MaxData == 7        \* the streaming methods are given at most this many bytes

Datas == { Take(<<120, 10, 10, 10, 121, 10, 10, 10, 10>>, n) : n \in 0..MaxData }

Messages ==
  { <<PING>>, <<VERSION, NL>>, <<RELOAD>>, <<LIST_CLASSIFIER>>, <<CLOSE>>, <<70>>, <<>> }

ClientNext ==
  \/ \E data \in Datas : client_md5_stream(1, data)
  \/ client_md5_stream_loop(1)
  \/ client_md5_stream_receive(1)
  \/ \E data \in Datas : client_predict_stream(1, data)
  \/ client_predict_stream_loop(1)
  \/ client_predict_stream_receive(1)
  \/ \E message \in Messages : client_command(1, message)
  \/ client_command_receive(1)
  \/ \E classifier \in Registered \cup {<<122>>}, value \in {str_true, <<70, 65, 76, 83, 69>>, <<110, 111>>} :
       client_set_classifier(1, classifier, value)
  \/ client_set_classifier_receive(1)
  \/ \E file_name \in Paths : client_md5_file(1, file_name)
  \/ client_md5_file_receive(1)
  \/ \E file_name \in Paths : client_predict_file(1, file_name)
  \/ client_predict_file_receive(1)
  \/ handle_end(1)
  \/ ping(1)
  \/ version(1)
  \/ reload(1)
  \/ close(1)
  \/ unknown_command(1)
  \/ list_classifier(1)
  \/ list_classifier_iter(1)
  \/ set_classifier(1)
  \/ set_classifier_respond(1)
  \/ md5_file(1)
  \/ md5_stream(1)
  \/ md5_stream_loop(1)
  \/ predict_stream(1)
  \/ predict_stream_loop(1)
  \/ predict_stream_for(1)
  \/ predict_file(1)
  \/ predict_file_for(1)

SpecClient == Init /\ [][ClientNext]_vars

(***************************************************************************)
(* The streaming methods under fair scheduling: one client program calling *)
(* md5_stream, predict_stream and command, and the handler thread of its   *)
(* connection.  ThreadingMixIn runs the handler in a thread of its own,    *)
(* which the scheduler does not starve; a method that was called runs on   *)
(* to its blocking receive.  Nothing makes the program call a method, or   *)
(* makes recv return.                                                      *)
(***************************************************************************)
\* Data of zero, one and two chunks; 255 is a byte that no UTF-8 text holds.
LiveDatas == { <<>>, <<120>>, <<120, 10, 121, 10>>, <<255>>, <<120, 10, 121, 255>> }

LiveMessages == { <<PING>>, <<>> }

LiveClient(c) ==
  \/ client_md5_stream_loop(c)
  \/ client_predict_stream_loop(c)

LiveHandle(c) ==
  \/ handle_end(c)
  \/ ping(c)
  \/ md5_stream(c)
  \/ md5_stream_loop(c)
  \/ predict_stream(c)
  \/ predict_stream_loop(c)
  \/ predict_stream_for(c)

LiveNext ==
  \/ \E data \in LiveDatas : client_md5_stream(1, data)
  \/ client_md5_stream_receive(1)
  \/ \E data \in LiveDatas : client_predict_stream(1, data)
  \/ client_predict_stream_receive(1)
  \/ \E message \in LiveMessages : client_command(1, message)
  \/ client_command_receive(1)
  \/ LiveClient(1)
  \/ LiveHandle(1)

SpecLive ==
  Init /\ [][LiveNext]_vars /\ WF_vars(LiveHandle(1)) /\ WF_vars(LiveClient(1))

(***************************************************************************)
(* Steps, as the properties below recognise them.                          *)
(***************************************************************************)
\* The handler of c takes bytes off its stream.
HandlerReads(c) == Len(c2s'[c]) < Len(c2s[c])

\* The handler of c returns from a receive called on its own (SpecFrame).
HandlerReturns(c) ==
  /\ handler'[c].data.tag # "nothing"
  /\ handler'[c].data # handler[c].data \/ HandlerReads(c)

\* The client of c returns from a receive.
ClientReturns(c) == cret'[c] # cret[c] /\ cret'[c].tag # "nothing"

\* The stream begins with the frame that send(data) writes.
StartsWith(stream, frame) == Take(stream, Len(frame)) = frame /\ Len(stream) >= Len(frame)

ValidLength(data) == Len(data) > 0 /\ Len(data) <= max_buffer_size

(***************************************************************************)
(* C1.  Frame round trip: a payload p with 0 < len(p) <= MaxFrameSize that *)
(* one end sends is what the other end's receive returns, and the stream   *)
(* is left at the next frame boundary; in both directions.                 *)
(* The direction server -> client fails: SimpleSocket.receive takes what   *)
(* one recv returns for the payload, which may be a part of it.            *)
(***************************************************************************)
C1_HandlerRoundTrip ==
  [][\A p \in FramePayloads :
       (ValidLength(p) /\ c2s[1] = SimpleSocket_send(p) /\ HandlerReturns(1))
         => (handler'[1].data = RetData(p) /\ c2s'[1] = <<>>)]_vars

C1_ClientRoundTrip ==
  [][\A p \in FramePayloads :
       (ValidLength(p) /\ s2c[1] = Handler_send(p) /\ ClientReturns(1))
         => (cret'[1] = RetData(p) /\ s2c'[1] = <<>>)]_vars

C1_FrameRoundTrip ==
  [][\A p \in FramePayloads :
       /\ (ValidLength(p) /\ c2s[1] = SimpleSocket_send(p) /\ HandlerReturns(1))
            => (handler'[1].data = RetData(p) /\ c2s'[1] = <<>>)
       /\ (ValidLength(p) /\ s2c[1] = Handler_send(p) /\ ClientReturns(1))
            => (cret'[1] = RetData(p) /\ s2c'[1] = <<>>)]_vars

(***************************************************************************)
(* C2.  A receive that has decoded a length header of 0 or of more than    *)
(* MaxFrameSize returns None and has read the four header bytes only, in   *)
(* the handler and in SimpleSocket alike.                                  *)
(***************************************************************************)
RejectedHeader(stream) ==
  /\ Len(stream) >= 4
  /\ \/ Unpack(Take(stream, 4)) = 0
     \/ Unpack(Take(stream, 4)) > 12

C2_RejectedLength ==
  [][/\ (handler[1].pc = "recv" /\ RejectedHeader(c2s[1]) /\ HandlerReturns(1))
          => (handler'[1].data = RetNone /\ c2s'[1] = Drop(c2s[1], 4))
     /\ (RejectedHeader(s2c[1]) /\ ClientReturns(1) /\ cret'[1].tag # "raise")
          => (cret'[1] = RetNone /\ s2c'[1] = Drop(s2c[1], 4))]_vars

\* Both ends have returned None on an oversized header and left its payload unread.
C2_Witness ==
  \/ handler[1].data = RetNone /\ Len(c2s[1]) = 13 /\ cret[1].tag = "nothing"
  \/ cret[1] = RetNone /\ Len(s2c[1]) = 13 /\ handler[1].data.tag = "nothing"

(***************************************************************************)
(* C3.  With the peer closed and no header byte to read, receive returns   *)
(* None and raises nothing, in the handler and in SimpleSocket alike.      *)
(* SimpleSocket.receive has no test for b'': struct.unpack raises.         *)
(***************************************************************************)
C3_HandlerPeerClosed ==
  [][(handler[1].pc = "recv" /\ c2s[1] = <<>> /\ cclosed[1] /\ HandlerReturns(1))
       => (handler'[1].data = RetNone /\ handler'[1].pc = "recv")]_vars

C3_PeerClosed ==
  [][/\ (handler[1].pc = "recv" /\ c2s[1] = <<>> /\ cclosed[1] /\ HandlerReturns(1))
          => (handler'[1].data = RetNone /\ handler'[1].pc = "recv")
     /\ (s2c[1] = <<>> /\ ~Alive(1) /\ ClientReturns(1))
          => cret'[1] = RetNone]_vars

(***************************************************************************)
(* Steps of the command layer.                                             *)
(***************************************************************************)
\* handle() of c, awaiting a command, receives the frame of this payload.
Serves(c, payload) ==
  /\ handler[c].pc = "recv"
  /\ StartsWith(c2s[c], SimpleSocket_send(payload))
  /\ HandlerReads(c)

\* The handler of c writes exactly this response and awaits the next command.
Answers(c, response) ==
  /\ s2c'[c] = s2c[c] \o Handler_send(response)
  /\ handler'[c] = HandlerStart

SetCommand(n, v) == Command(<< <<SET_CLASSIFIER>>, n, v >>)

Denotes(v) == Lower(v) = str_true

\* What LIST_CLASSIFIER and SET_CLASSIFIER show of one entry.
Shown(n, b) == n \o <<json_bool(b)>>

(***************************************************************************)
(* C4.  SET_CLASSIFIER:n:v with n registered and v "true" or "false" in    *)
(* any letter case answers OK with [{n: b}], b the boolean v denotes, and  *)
(* the registry then holds b for n, which is what a LIST_CLASSIFIER reads  *)
(* and reports while no SET_CLASSIFIER writes it again.                    *)
(* With one connection this holds (C4_OneConnection).  With two, another   *)
(* connection's write between lines 233/235 and 238 changes the answer.    *)
(***************************************************************************)
C4_Step(c) ==
  /\ \A n \in Registered, v \in ValidValues :
       Serves(c, SetCommand(n, v))
         => /\ classifiers' = [classifiers EXCEPT ![n] = Denotes(v)]
            /\ handler'[c].pc = "set_classifier"
            /\ handler'[c].classifier = n
            /\ handler'[c].value = v
  /\ \A n \in Registered, v \in ValidValues :
       (handler[c].pc = "set_classifier" /\ handler[c].classifier = n
          /\ handler[c].value = v /\ handler'[c] # handler[c])
         => Answers(c, json_response(ST_OK, Shown(n, Denotes(v))))
  /\ \A i \in 1..Len(classifier_names) :
       (handler[c].pc = "list_classifier" /\ handler[c].i = i /\ handler'[c] # handler[c])
         => LET result == Append(handler[c].result,
                            <<classifier_names[i],
                              <<json_bool(classifiers[classifier_names[i]])>> >>)
            IN IF i = Len(classifier_names)
                 THEN Answers(c, json_response(ST_OK, json_dict(result)))
                 ELSE handler'[c].result = result /\ handler'[c].i = i + 1

C4_OneConnection == [][C4_Step(1)]_vars

C4_SetThenList == [][\A c \in Conns : C4_Step(c)]_vars

\* "TRUE"-like spellings were served: the client holds OK [{a: false}] for
\* the upper-case value, and the registry holds false for a.
C4_Witness ==
  /\ cret[1] = RetData(json_response(ST_OK, Shown(<<97>>, FALSE)))
  /\ ~classifiers[<<97>>]
  /\ handler[1] = HandlerStart

(***************************************************************************)
(* C5.  SET_CLASSIFIER:n:v with n registered and v neither "true" nor      *)
(* "false" in any letter case answers with status ERROR, leaves every flag *)
(* of the registry as it was, and the handler awaits the next command.     *)
(***************************************************************************)
C5_InvalidValue ==
  [][\A n \in Registered, v \in InvalidValues :
       /\ Serves(1, SetCommand(n, v))
            => /\ classifiers' = classifiers
               /\ handler'[1].pc = "set_classifier"
               /\ handler'[1].classifier = n
               /\ handler'[1].status = ST_ERROR
       /\ (handler[1].pc = "set_classifier" /\ handler[1].classifier = n
             /\ handler[1].status = ST_ERROR /\ handler'[1] # handler[1])
            => /\ Answers(1, json_response(ST_ERROR, Shown(n, classifiers[n])))
               /\ classifiers' = classifiers]_vars

\* The client holds the ERROR answer for b, b is still enabled, and the
\* handler awaits a command.
C5_Witness ==
  /\ cret[1] = RetData(json_response(ST_ERROR, Shown(<<98>>, TRUE)))
  /\ classifiers[<<98>>]
  /\ handler[1] = HandlerStart

(***************************************************************************)
(* C6.  SET_CLASSIFIER with a name that is not registered answers with one *)
(* frame of status ERROR, leaves the registry as it was, and the handler   *)
(* awaits the next command.                                                *)
(* The code raises KeyError instead (line 233, 235 or 238): no frame is    *)
(* sent and the handler ends.                                              *)
(***************************************************************************)
ErrorFrameAdded(c) ==
  /\ Len(s2c'[c]) > Len(s2c[c]) + 4
  /\ Take(s2c'[c], Len(s2c[c])) = s2c[c]
  /\ s2c'[c][Len(s2c[c]) + 5] = ST_ERROR
  /\ Len(s2c'[c]) = Len(s2c[c]) + 4 + Unpack(Take(Drop(s2c'[c], Len(s2c[c])), 4))

C6_UnknownName ==
  [][\A n \in UnknownNames, v \in ValidValues \cup InvalidValues :
       /\ Serves(1, SetCommand(n, v))
            => /\ classifiers' = classifiers
               /\ \/ handler'[1].pc = "set_classifier" /\ s2c' = s2c
                  \/ handler'[1] = HandlerStart /\ ErrorFrameAdded(1)
       /\ (handler[1].pc = "set_classifier" /\ handler[1].classifier = n
             /\ handler'[1] # handler[1])
            => /\ classifiers' = classifiers
               /\ handler'[1] = HandlerStart
               /\ ErrorFrameAdded(1)]_vars

(***************************************************************************)
(* C7.  A command whose first token, after the trailing whitespace is      *)
(* stripped, is none of the ten verbs is answered with status ERROR and    *)
(* "Unknown Command"; the registry is as it was and the handler awaits the *)
(* next command, so that a PING that follows is answered with PONG.        *)
(***************************************************************************)
FirstToken(payload) == Split(RStrip(payload), COLON)[1]

C7_UnknownVerb ==
  [][/\ \A p \in Payloads :
          (ValidLength(p) /\ FirstToken(p) \notin {<<v>> : v \in Verbs} /\ Serves(1, p))
            => /\ Answers(1, <<ST_ERROR, UNKNOWN_COMMAND>>)
               /\ classifiers' = classifiers
     /\ Serves(1, <<PING, NL>>) => Answers(1, <<ST_OK, PONG>>)]_vars

\* The answer to the unknown verb has reached the client, and the handler
\* awaits the command that follows.
C7_Witness ==
  /\ cret[1] = RetData(<<ST_ERROR, UNKNOWN_COMMAND>>)
  /\ handler[1] = HandlerStart
  /\ ~cclosed[1]

(***************************************************************************)
(* What a predict command answers for these lines under these flags: one   *)
(* key per enabled entry of the registry, in the registry's order.         *)
(***************************************************************************)
Enabled(flags) == SelectSeq(classifier_names, LAMBDA n : flags[n])

Predictions(names, lines) == [k \in 1..Len(names) |-> <<names[k], predict(names[k], lines)>>]

Keys(result) == [k \in 1..Len(result) |-> result[k][1]]

\* The handler of c is in the loop over the registry and takes its last turn.
LastTurn(c, pc) ==
  /\ handler[c].pc = pc
  /\ handler[c].i = Len(classifier_names)
  /\ handler'[c] # handler[c]

(***************************************************************************)
(* C8.  With no SET_CLASSIFIER under way, the result of PREDICT_STREAM and *)
(* of PREDICT_FILE has exactly the enabled entries of the registry as its  *)
(* keys, each once and in the registry's order; when every entry is        *)
(* disabled, the answer is status OK with an empty result.                 *)
(***************************************************************************)
C8_Turn(c, pc) ==
  /\ (handler[c].pc = pc /\ handler'[c].pc = pc /\ handler'[c] # handler[c])
       => Keys(handler'[c].result)
            = Enabled([n \in Registered |->
                         classifiers[n] /\ \E k \in 1..handler[c].i : classifier_names[k] = n])
  /\ LastTurn(c, pc)
       => LET result == Predictions(Enabled(classifiers), handler[c].multi_line)
          IN /\ Keys(result) = Enabled(classifiers)
             /\ Answers(c, json_response(ST_OK, json_dict(result)))
             /\ (\A n \in Registered : ~classifiers[n]) => Answers(c, <<ST_OK>>)

C8_EnabledKeys == [][C8_Turn(1, "predict_stream_for") /\ C8_Turn(1, "predict_file_for")]_vars

\* Every entry is disabled and the client holds the empty result.
C8_Witness ==
  /\ \A n \in Registered : ~classifiers[n]
  /\ cret[1] = RetData(<<ST_OK>>)
  /\ handler[1] = HandlerStart

(***************************************************************************)
(* C9.  PREDICT_STREAM on chunk frames followed by a sentinel and          *)
(* PREDICT_FILE on a file agree when the chunks in their order make up the *)
(* content of the file: the stream is the concatenation of the chunks, the *)
(* classifiers get the content split on newline in both, and both answers  *)
(* are the same function of the content and the flags.                     *)
(***************************************************************************)
PredictAnswer(content, flags) ==
  json_response(ST_OK, json_dict(Predictions(Enabled(flags), Split(content, NL))))

C9_StreamAsFile ==
  [][/\ \A p \in Payloads :
          (handler[1].pc = "predict_stream" /\ ValidLength(p)
             /\ StartsWith(c2s[1], SimpleSocket_send(p)) /\ HandlerReads(1))
            => handler'[1] = [handler[1] EXCEPT !.stream = @ \o p]
     /\ (handler[1].pc = "predict_stream" /\ handler'[1].pc = "predict_stream_for")
          => /\ handler'[1].stream = handler[1].stream
             /\ handler'[1].multi_line = Split(handler[1].stream, NL)
     /\ (handler[1].pc = "recv" /\ handler'[1].pc = "predict_file_for")
          => handler'[1].multi_line = Split(files[handler'[1].file_name], NL)
     /\ LastTurn(1, "predict_stream_for")
          => Answers(1, PredictAnswer(handler[1].stream, classifiers))
     /\ LastTurn(1, "predict_file_for")
          => Answers(1, PredictAnswer(files[handler[1].file_name], classifiers))]_vars

\* The stream, received in more than one chunk, is the content of file f,
\* and the loop over the registry is about to answer.
C9_Witness ==
  /\ handler[1].pc = "predict_stream_for"
  /\ handler[1].i = Len(classifier_names)
  /\ handler[1].stream = files[<<102>>]
  /\ \E n \in Registered : classifiers[n]

(***************************************************************************)
(* C10.  MD5_STREAM answers with the digest of the chunks between the verb *)
(* and the sentinel, concatenated in their order, however the content was  *)
(* split; MD5_FILE answers with the same digest for a file of that         *)
(* content.                                                                *)
(***************************************************************************)
Md5Answer(content) == json_response(ST_OK, hexdigest(md5_update(md5_new, content)))

C10_Md5OfConcatenation ==
  [][/\ Serves(1, Command(<< <<MD5_STREAM>> >>))
          => handler'[1] = [HandlerStart EXCEPT !.pc = "md5_stream"]
     /\ \A p \in Payloads :
          (handler[1].pc = "md5_stream" /\ ValidLength(p)
             /\ StartsWith(c2s[1], SimpleSocket_send(p)) /\ HandlerReads(1))
            => /\ handler'[1] = [handler[1] EXCEPT !.hash_md5 = md5_update(@, p)]
               /\ s2c' = s2c
     /\ (handler[1].pc = "md5_stream" /\ StartsWith(c2s[1], SimpleSocket_send(<<>>))
           /\ HandlerReads(1))
          => Answers(1, Md5Answer(handler[1].hash_md5))
     /\ \A path \in DOMAIN files :
          Serves(1, Command(<< <<MD5_FILE>>, path >>))
            => Answers(1, Md5Answer(files[path]))]_vars

\* The chunks received so far make up the content of file f, and the
\* sentinel is next.
C10_Witness ==
  /\ handler[1].pc = "md5_stream"
  /\ handler[1].hash_md5 = files[<<102>>]
  /\ c2s[1] = SimpleSocket_send(<<>>)

(***************************************************************************)
(* Where handle() is.                                                      *)
(***************************************************************************)
\* Between commands, or ended: no method of a command is under way.
AtRest(h) == h.pc \in {"recv", "exit", "crashed"}

InSubLoop(h) == h.pc \in {"md5_stream", "predict_stream"}

\* The handler of c takes a step.
HandlerSteps(c) ==
  handler'[c] # handler[c] \/ HandlerReads(c) \/ Len(s2c'[c]) > Len(s2c[c])

(***************************************************************************)
(* C11.  Every command handle() dispatches is answered with exactly one    *)
(* response frame: whenever no command is under way, as many response      *)
(* frames have been sent as commands were dispatched; and a sub-loop of    *)
(* MD5_STREAM or PREDICT_STREAM sends nothing in a turn that reads a       *)
(* chunk, its one response being sent by the turn whose receive gives      *)
(* None.                                                                   *)
(* The counts differ once a method raises: the command was dispatched and  *)
(* no response follows.  The part on the sub-loops holds (C11_SubLoop).    *)
(***************************************************************************)
C11_SubLoop ==
  [][(InSubLoop(handler[1]) /\ HandlerSteps(1))
       => IF Received(1).ret.tag = "data"
            THEN s2c' = s2c /\ handler'[1].pc = handler[1].pc
            ELSE s2c' # s2c
                   => /\ Received(1).ret.tag = "None"
                      /\ outstanding[1] = 1 /\ outstanding'[1] = 0]_vars

C11_OneResponsePerCommand ==
  [][/\ AtRest(handler'[1]) => outstanding'[1] = 0
     /\ (InSubLoop(handler[1]) /\ HandlerSteps(1) /\ Received(1).ret.tag = "data")
          => s2c' = s2c]_vars

(***************************************************************************)
(* C12.  Commands are served in the order they are read, one at a time:    *)
(* at most one command is outstanding, the handler reads a command frame   *)
(* only when every command read before has its response written, and a    *)
(* response frame is written only for the one command outstanding, so the  *)
(* i-th response answers the i-th command.  While a command is under way   *)
(* the handler reads nothing but the frames of its sub-loop, whatever the  *)
(* client has already sent.                                                *)
(***************************************************************************)
C12_NoPipelining ==
  [][/\ outstanding'[1] <= 1
     /\ (HandlerReads(1) /\ ~InSubLoop(handler[1]))
          => handler[1].pc = "recv" /\ outstanding[1] = 0
     /\ Len(s2c'[1]) > Len(s2c[1])
          => /\ outstanding'[1] = 0
             /\ \/ outstanding[1] = 1 /\ ~HandlerReads(1)
                \/ outstanding[1] = 1 /\ InSubLoop(handler[1])
                \/ outstanding[1] = 0 /\ HandlerReads(1) /\ handler[1].pc = "recv"]_vars

\* A command is under way, outside a sub-loop, and the frame of the next
\* command has already arrived.
C12_Witness ==
  /\ outstanding[1] = 1
  /\ handler[1].pc \in {"list_classifier", "set_classifier", "predict_file_for",
                        "predict_stream_for"}
  /\ \E p \in Commands : c2s[1] = SimpleSocket_send(p)

(***************************************************************************)
(* C13.  CLOSE is answered with exactly one response, OK "Bye", and        *)
(* handle() returns: from then on the handler reads no frame and writes no *)
(* response on the connection, whatever the client sends after CLOSE.      *)
(***************************************************************************)
C13_CloseEnds ==
  [][/\ \A p \in Payloads :
          (ValidLength(p) /\ FirstToken(p) = <<CLOSE>> /\ Serves(1, p))
            => /\ s2c'[1] = s2c[1] \o Handler_send(<<ST_OK, BYE>>)
               /\ handler'[1].pc = "exit"
               /\ outstanding'[1] = 0
     /\ handler[1].pc = "exit"
          => /\ handler'[1] = handler[1]
             /\ Len(c2s'[1]) >= Len(c2s[1])
             /\ Len(s2c'[1]) <= Len(s2c[1])
             /\ outstanding'[1] = outstanding[1]]_vars

\* handle() has returned on CLOSE, and the client has sent a frame since.
C13_Witness ==
  /\ handler[1].pc = "exit"
  /\ s2c[1] = Handler_send(<<ST_OK, BYE>>)
  /\ c2s[1] # <<>>

(***************************************************************************)
(* C14.  A framing error ends the connection silently in every state of    *)
(* the handler: when it reads a length header over MaxFrameSize or a       *)
(* truncated header, awaiting a command or inside the sub-loop of          *)
(* MD5_STREAM or PREDICT_STREAM, it writes no response frame from then on  *)
(* and handle() ends.                                                      *)
(* Awaiting a command this holds (C14_AwaitingCommand).  Inside a sub-loop *)
(* the None of receive only ends the sub-loop: the response of the         *)
(* streaming command is written and handle() reads on, taking the bytes    *)
(* of the rejected payload for frames.                                     *)
(***************************************************************************)
FramingError(stream) ==
  \/ Len(stream) >= 4 /\ Unpack(Take(stream, 4)) > max_buffer_size
  \/ Len(stream) > 0 /\ Len(stream) < 4

C14_AwaitingCommand ==
  [][(handler[1].pc = "recv" /\ FramingError(c2s[1]) /\ HandlerReads(1))
       => s2c'[1] = s2c[1] /\ handler'[1].pc \in {"exit", "crashed"}]_vars

C14_FramingErrorFatal ==
  [][/\ (handler[1].pc \in {"recv", "md5_stream", "predict_stream"}
           /\ FramingError(c2s[1]) /\ HandlerReads(1))
          => s2c'[1] = s2c[1] /\ handler'[1].pc \in {"exit", "crashed"}
     /\ handler[1].pc \in {"exit", "crashed"}
          => Len(s2c'[1]) <= Len(s2c[1]) /\ handler'[1] = handler[1]]_vars

(***************************************************************************)
(* C15.  The client's md5_stream(data) and predict_stream(data) send the   *)
(* command frame, then ceil(L / max_chunk_size) chunk frames for data of   *)
(* length L, then one zero-length frame, and then call receive exactly     *)
(* once.  No chunk is empty or longer than max_chunk_size, every chunk but *)
(* the last has max_chunk_size bytes, and the chunks in their order make   *)
(* up data.                                                                *)
(***************************************************************************)
RECURSIVE Concat(_)
Concat(chunks) == IF Len(chunks) = 0 THEN <<>> ELSE chunks[1] \o Concat(Drop(chunks, 1))

Ceil(a, b) == (a + b - 1) \div b

StreamVerb(method) == IF method = "md5_stream" THEN MD5_STREAM ELSE PREDICT_STREAM

C15_Chunking ==
  LET m == client[1]
      n == Ceil(Len(m.data), max_chunk_size)
      chunks == SubSeq(m.sent, 2, Len(m.sent) - 1)
  IN (m.method \in {"md5_stream", "predict_stream"} /\ m.pc \in {"receive", "idle"})
       => /\ Len(m.sent) = n + 2
          /\ m.sent[1] = Command(<< <<StreamVerb(m.method)>> >>)
          /\ m.sent[n + 2] = <<>>
          /\ \A k \in 1..n :
               /\ Len(chunks[k]) > 0
               /\ Len(chunks[k]) <= max_chunk_size
               /\ k < n => Len(chunks[k]) = max_chunk_size
          /\ Concat(chunks) = m.data
          /\ m.receives = IF m.pc = "idle" THEN 1 ELSE 0

\* md5_stream has returned, having sent data of two full chunks and a rest.
C15_Witness ==
  /\ client[1].method = "md5_stream"
  /\ client[1].pc = "idle"
  /\ Len(client[1].data) = 2 * max_chunk_size + 1
  /\ cret[1].tag = "data"

(***************************************************************************)
(* C16.  While MD5_STREAM or PREDICT_STREAM is under way no other command  *)
(* is served on the connection: a frame the sub-loop reads is added to the *)
(* content, also when its payload spells a command such as PING or CLOSE;  *)
(* it gets no response of its own and does not end the connection, and     *)
(* the streaming command stays the one command outstanding.                *)
(***************************************************************************)
C16_NoInterleaving ==
  [][\A p \in Payloads :
       (InSubLoop(handler[1]) /\ ValidLength(p)
          /\ StartsWith(c2s[1], SimpleSocket_send(p)) /\ HandlerReads(1))
         => /\ handler'[1] =
                 IF handler[1].pc = "md5_stream"
                   THEN [handler[1] EXCEPT !.hash_md5 = md5_update(@, p)]
                   ELSE [handler[1] EXCEPT !.stream = @ \o p]
            /\ s2c'[1] = s2c[1]
            /\ c2s'[1] = Drop(c2s[1], 4 + Len(p))
            /\ outstanding[1] = 1 /\ outstanding'[1] = 1]_vars

\* The sub-loops have taken the frames of CLOSE and of PING for content.
C16_Witness ==
  \/ /\ handler[1].pc = "md5_stream"
     /\ handler[1].hash_md5 = Command(<< <<CLOSE>> >>)
     /\ outstanding[1] = 1
  \/ /\ handler[1].pc = "predict_stream"
     /\ handler[1].stream = Command(<< <<PING>> >>)
     /\ outstanding[1] = 1

(***************************************************************************)
(* C17.  With SET_CLASSIFIER on one connection and PREDICT_STREAM on       *)
(* another interleaved in any way, every flag of the registry is a boolean *)
(* at every moment, and each turn of the predict pass acts on the value    *)
(* the flag has at the moment of that turn: it puts the classifier into    *)
(* the result with its prediction for the lines of the stream when the     *)
(* flag is true, and leaves it out when the flag is false.                 *)
(***************************************************************************)
\* The result after the turn the handler of c takes, read off its next state.
TurnResult(c, result) ==
  IF handler[c].i = Len(classifier_names)
    THEN Answers(c, json_response(ST_OK, json_dict(result)))
    ELSE handler'[c] = [handler[c] EXCEPT !.result = result, !.i = @ + 1]

C17_Turn(c) ==
  (handler[c].pc = "predict_stream_for" /\ handler'[c] # handler[c])
    => LET h == handler[c]
           name == classifier_names[h.i]
       IN /\ classifiers[name] \in BOOLEAN
          /\ classifiers[name]
               => TurnResult(c, Append(h.result, <<name, predict(name, Split(h.stream, NL))>>))
          /\ ~classifiers[name] => TurnResult(c, h.result)

C17_NoTornFlag ==
  [][/\ classifiers' \in [Registered -> BOOLEAN]
     /\ \A c \in Conns : C17_Turn(c)]_vars

\* The pass on connection 1 has taken a in, and the SET_CLASSIFIER of
\* connection 2 has disabled a before the pass has ended.
C17_Witness ==
  /\ handler[1].pc = "predict_stream_for"
  /\ Keys(handler[1].result) = << <<97>> >>
  /\ ~classifiers[<<97>>]
  /\ handler[2].pc = "set_classifier"
  /\ handler[2].classifier = <<97>>

(***************************************************************************)
(* C18.  Each pass of PREDICT_STREAM, PREDICT_FILE and LIST_CLASSIFIER     *)
(* over the registry answers with the flags as they all stood at one       *)
(* instant between its start and its end, whatever SET_CLASSIFIER commands *)
(* other connections run meanwhile.                                        *)
(* The pass reads one flag per turn and holds no lock: with a flag it has  *)
(* read set after the turn and a flag it has yet to read set before the    *)
(* turn, its answer is a state the registry never had.                     *)
(***************************************************************************)
ListAnswer(flags) ==
  json_response(ST_OK,
    json_dict([k \in 1..Len(classifier_names) |->
                 <<classifier_names[k], <<json_bool(flags[classifier_names[k]])>> >>]))

C18_Pass(c) ==
  /\ LastTurn(c, "list_classifier")
       => \E flags \in snapshots[c] : Answers(c, ListAnswer(flags))
  /\ LastTurn(c, "predict_file_for")
       => \E flags \in snapshots[c] :
            Answers(c, PredictAnswer(files[handler[c].file_name], flags))
  /\ LastTurn(c, "predict_stream_for")
       => \E flags \in snapshots[c] : Answers(c, PredictAnswer(handler[c].stream, flags))

C18_ConsistentSnapshot == [][\A c \in Conns : C18_Pass(c)]_vars

C18_OneConnection == [][C18_Pass(1)]_vars

(***************************************************************************)
(* C19.  The registry keeps the names it got at startup and every flag is  *)
(* a boolean; a flag changes only in the step of a SET_CLASSIFIER command  *)
(* that names its entry with "true" or "false" in any letter case, and     *)
(* then to the boolean the value denotes.  Every other command, and        *)
(* SET_CLASSIFIER with an unknown name or another value, leaves the        *)
(* registry as it was.                                                     *)
(***************************************************************************)
\* The handler of c serves SET_CLASSIFIER for entry n with a valid value.
SetsFlag(c, n) ==
  /\ handler[c].pc = "recv"
  /\ HandlerReads(c)
  /\ Received(c).ret.tag = "data"
  /\ Len(Header(c)) >= 3
  /\ Header(c)[1] = <<SET_CLASSIFIER>>
  /\ Header(c)[2] = n
  /\ Lower(Header(c)[3]) \in {str_true, str_false}
  /\ classifiers' = [classifiers EXCEPT ![n] = Denotes(Header(c)[3])]

MethodReturns(c) == client[c].pc = "receive" /\ client'[c].pc = "idle"

\* The stream holds a whole frame: what one send of the handler has written.
FrameWaiting(stream) ==
  /\ Len(stream) >= 4
  /\ Len(stream) >= 4 + Unpack(Take(stream, 4))

C20_Pairing ==
  [][(MethodReturns(1) /\ FrameWaiting(s2c[1]))
       => LET size == Unpack(Take(s2c[1], 4))
          IN /\ cret'[1] = RetData(Take(Drop(s2c[1], 4), size))
             /\ s2c'[1] = Drop(s2c[1], 4 + size)]_vars

\* The same for the responses that fit max_data_size and that one recv
\* returns whole: the case the client is written for.
C20_WholeReads ==
  [][(MethodReturns(1) /\ FrameWaiting(s2c[1])
        /\ Unpack(Take(s2c[1], 4)) <= max_data_size
        /\ cret'[1].tag = "data" /\ Len(cret'[1].data) = Unpack(Take(s2c[1], 4)))
       => LET size == Unpack(Take(s2c[1], 4))
          IN /\ cret'[1] = RetData(Take(Drop(s2c[1], 4), size))
             /\ s2c'[1] = Drop(s2c[1], 4 + size)]_vars

(***************************************************************************)
(* C21.  Under fair scheduling, once a client has sent MD5_STREAM or       *)
(* PREDICT_STREAM, finitely many chunk frames of a valid length and the    *)
(* zero-length frame, as md5_stream and predict_stream of the client do    *)
(* for any finite data, the handler eventually has left the sub-loop,      *)
(* written the one response of the command and is awaiting the next        *)
(* command; and the sub-loop ends on a sentinel, an invalid length or a    *)
(* peer close only.                                                        *)
(***************************************************************************)
StreamMethods == {"md5_stream", "predict_stream"}

\* The method has sent its command, its chunks and the sentinel, and the
\* handler of the connection is running.
StreamSent ==
  /\ client[1].method \in StreamMethods
  /\ client[1].pc = "receive"
  /\ Alive(1)

\* All that was sent is read, every command read has its response, and the
\* handler awaits a command.
Completed ==
  /\ handler[1] = HandlerStart
  /\ c2s[1] = <<>>
  /\ outstanding[1] = 0

\* C21: a stream that was sent whole is answered, whatever its data.
C21_StreamCompletes == StreamSent ~> Completed

\* C21, for the digest and for data that decodes: the stream is answered.
C21_DecodableCompletes ==
  (StreamSent /\ (client[1].method = "md5_stream" \/ Utf8Valid(client[1].data)))
    ~> Completed

\* C21, the command after the stream: a PING sent to a running handler is
\* answered.
C21_NextServed ==
  (client[1].method = "command" /\ client[1].pc = "receive"
     /\ client[1].sent = << <<PING>> >> /\ Alive(1)) ~> Completed

\* C21, the ends of the sub-loop: a handler leaves it when receive has
\* returned None (a zero or oversized length, or the peer's close) or has
\* raised (the peer's close inside a header), and not otherwise.
C21_SubLoopEnds ==
  [][(InSubLoop(handler[1]) /\ ~InSubLoop(handler'[1]))
       => /\ CanReceive(1)
          /\ Received(1).ret.tag \in {"None", "raise"}
          /\ c2s'[1] = Received(1).rest]_vars

\* The handler has read the sentinel of PREDICT_STREAM and has not answered.
C21_Undecodable ==
  /\ handler[1].pc = "crashed"
  /\ client[1].method = "predict_stream"
  /\ client[1].pc = "receive"
  /\ c2s[1] = <<>>
  /\ s2c[1] = <<>>
  /\ outstanding[1] = 1

====
